---- MODULE Spec2Model ----
(***************************************************************************)
(* Game Tracker (Vanilla JS): the controller of assets/js/domains/         *)
(* game_tracker.js, the GameRow model, the LocalStorageService and the     *)
(* paging state of the TableManager, as a state machine.                   *)
(*                                                                         *)
(* JavaScript values are modelled as follows.  Strings are TLA+ strings.   *)
(* A property that is absent (or undefined) holds UNDEF and null is NULL.  *)
(* An array is a sequence (1-based); an index of 0 stands for "not found"  *)
(* (JavaScript's -1 / undefined).  A document (a file's text or the text   *)
(* stored under STORAGE_KEY) is a record [kind, tabs].                     *)
(***************************************************************************)
EXTENDS Integers, Sequences, FiniteSets, TLC

VARIABLES pc, localStorage, tabsData, activeTabId, modalState,
          currentPage, sortConfig, now, reader, storageFull, view, op

vars == <<pc, localStorage, tabsData, activeTabId, modalState,
          currentPage, sortConfig, now, reader, storageFull, view, op>>

(***************************************************************************)
(* Bounds of the model.                                                    *)
(***************************************************************************)
MaxTabs == 2
MaxGames == 1
MaxClock == 2
MaxReads == 1
MaxRows == 11

(***************************************************************************)
(* op is a history variable: the handler that ran last, its arguments and  *)
(* what came of it.  Every action sets it, so op' names the step taken.    *)
(* storageFull is the environment: while it holds, localStorage.setItem    *)
(* throws.  view is what updateUI rendered last.  MaxRows bounds the       *)
(* records of a tab in the paging part, MaxGames in the other parts.       *)
(*                                                                         *)
(* JavaScript values.                                                      *)
(***************************************************************************)
UNDEF == "<undefined>"
NULL == "<null>"

\* The JSON number 5: a truthy value that is not a string (it has no trim
\* method).
NUMBER5 == "<number 5>"

\* JavaScript truthiness of a value that is a string, absent, null or the
\* number 5 (x || fallback).
Truthy(v) == v # UNDEF /\ v # NULL /\ v # ""

\* String(v), also the conversion of a template literal and of parseInt.
String(v) ==
  CASE v = UNDEF   -> "undefined"
    [] v = NULL    -> "null"
    [] v = NUMBER5 -> "5"
    [] OTHER       -> v

Or(v, fallback) == IF Truthy(v) THEN v ELSE fallback

\* Array.prototype.includes on a sequence.
includes(arr, v) == \E i \in DOMAIN arr : arr[i] = v

\* Array.prototype.findIndex for "element.id === id": least index, 0 if none.
findIndex(arr, id) ==
  IF \E i \in DOMAIN arr : arr[i].id = id
  THEN CHOOSE i \in DOMAIN arr :
         arr[i].id = id /\ \A j \in DOMAIN arr : arr[j].id = id => i <= j
  ELSE 0

\* Array.prototype.splice(index, 1).
splice1(arr, index) ==
  [i \in 1..(Len(arr) - 1) |-> IF i < index THEN arr[i] ELSE arr[i + 1]]

\* The line tabulation U+000B and the no-break space U+00A0.
VT == ""

NBSP == " "

\* The WhiteSpace and LineTerminator characters that String.prototype.trim
\* strips and parseInt skips: tab, line feed, line tabulation, form feed,
\* carriage return, space, no-break space, U+1680 and U+FEFF.  The others
\* (U+2000 to U+200A, U+2028, U+2029, U+202F, U+205F, U+3000) cannot be
\* written in a string of this module, so no string here contains them.
WhiteSpace == {"\t", "\n", VT, "\f", "\r", " ", NBSP, " ", "﻿"}

\* String.prototype.trim
RECURSIVE trimStart(_)
trimStart(s) ==
  IF Len(s) > 0 /\ SubSeq(s, 1, 1) \in WhiteSpace
  THEN trimStart(SubSeq(s, 2, Len(s))) ELSE s

RECURSIVE trimEnd(_)
trimEnd(s) ==
  IF Len(s) > 0 /\ SubSeq(s, Len(s), Len(s)) \in WhiteSpace
  THEN trimEnd(SubSeq(s, 1, Len(s) - 1)) ELSE s

trim(s) == trimEnd(trimStart(s))

\* Math.ceil(n / d) for n >= 0, d > 0.
ceilDiv(n, d) == (n + d - 1) \div d

(***************************************************************************)
(* assets/js/utils/EnumOptionsTable.js                                     *)
(***************************************************************************)
GameStatus == <<"Não Iniciado", "Jogando", "Pausado", "Zerado">>

GameNote == [i \in 1..11 |-> ToString(i - 1)]

GameDifficulty == <<"F", "E-", "E", "E+", "D-", "D", "D+", "C-", "C", "C+",
                    "B-", "B", "B+", "A-", "A", "A+", "S", "S+">>

\* The status list of README.md ("Campos de Dados") and of sortGames.
statusOrder == <<"Não Iniciado", "Jogando", "Pausado", "Zerado", "Abandonado">>

(***************************************************************************)
(* assets/js/models/GameRow.js                                             *)
(* A GameRow instance is [id, title, _status, _note, _difficulty]; the     *)
(* plain object of toJSON is [id, title, status, note, difficulty].        *)
(***************************************************************************)
\* new GameRow(data) at clock value t.
\* A constructor that goes through the setters, which refuse a status, note
\* or difficulty outside the enumerations.
GameRow_viaSetters(data, t) ==
  [id          |-> Or(data.id, ToString(t)),
   title       |-> Or(data.title, ""),
   _status     |-> IF \E k \in DOMAIN GameStatus : GameStatus[k] = data.status
                   THEN data.status ELSE GameStatus[1],
   _note       |-> IF \E k \in DOMAIN GameNote : GameNote[k] = data.note
                   THEN data.note ELSE GameNote[1],
   _difficulty |-> IF \E k \in DOMAIN GameDifficulty :
                         GameDifficulty[k] = data.difficulty
                   THEN data.difficulty ELSE GameDifficulty[1]]

GameRow(data, t) ==
  [id          |-> Or(data.id, ToString(t)),
   title       |-> Or(data.title, ""),
   _status     |-> Or(data.status, GameStatus[1]),
   _note       |-> Or(data.note, GameNote[1]),
   _difficulty |-> Or(data.difficulty, GameDifficulty[1])]

isValidStatus(status) == includes(GameStatus, status)

isValidNote(note) == includes(GameNote, String(note))

isValidDifficulty(difficulty) == includes(GameDifficulty, difficulty)

\* The setters: an invalid value keeps the previous one.
setStatus(row, value) ==
  IF isValidStatus(value) THEN [row EXCEPT !._status = value] ELSE row

setNote(row, value) ==
  IF isValidNote(value) THEN [row EXCEPT !._note = value] ELSE row

setDifficulty(row, value) ==
  IF isValidDifficulty(value) THEN [row EXCEPT !._difficulty = value] ELSE row

validProperties == <<"title", "status", "note", "difficulty">>

\* updateProperty(property, value): the pair of the returned boolean and the
\* instance after the call.
updateProperty(row, property, value) ==
  IF ~includes(validProperties, property)
  THEN [ret |-> FALSE, row |-> row]
  ELSE [ret |-> TRUE,
        row |-> CASE property = "title"      -> [row EXCEPT !.title = value]
                  [] property = "status"     -> setStatus(row, value)
                  [] property = "note"       -> setNote(row, value)
                  [] property = "difficulty" -> setDifficulty(row, value)]

\* validate() throws a TypeError on a title that is truthy and not a
\* string: !this.title is false and this.title.trim is not a function.
validateThrows(row) == row.title = NUMBER5

\* validate().isValid, for a title that is a string.
validate(row) ==
  /\ Truthy(row.title) /\ trim(row.title) # ""
  /\ isValidStatus(row._status)
  /\ isValidNote(row._note)
  /\ isValidDifficulty(row._difficulty)

\* validate().errors, for a title that is a string: the messages, in the
\* order they are pushed.
validateErrors(row) ==
  (IF ~Truthy(row.title) \/ trim(row.title) = ""
   THEN <<"Título não pode estar vazio">> ELSE <<>>)
  \o (IF ~isValidStatus(row._status)
      THEN <<"Status \"" \o String(row._status) \o "\" é inválido">> ELSE <<>>)
  \o (IF ~isValidNote(row._note)
      THEN <<"Nota \"" \o String(row._note) \o "\" é inválida">> ELSE <<>>)
  \o (IF ~isValidDifficulty(row._difficulty)
      THEN <<"Dificuldade \"" \o String(row._difficulty) \o "\" é inválida">>
      ELSE <<>>)

toJSON(row) ==
  [id         |-> row.id,
   title      |-> row.title,
   status     |-> row._status,
   note       |-> row._note,
   difficulty |-> row._difficulty]

fromJSON(data, t) == GameRow(data, t)

createDefault(index, t) ==
  GameRow([id         |-> UNDEF,
           title      |-> "Novo Jogo " \o ToString(index),
           status     |-> GameStatus[1],
           note       |-> GameNote[1],
           difficulty |-> GameDifficulty[1]], t)

(***************************************************************************)
(* Documents: the text of a file or of the value stored under STORAGE_KEY. *)
(* kind "absent": no value; "garbage": text that JSON.parse rejects;       *)
(* "falsy": the JSON null, 0, false or ""; "object": any other JSON that   *)
(* is not an array; "array": an array whose elements are tab objects       *)
(* [id, name, games], games being [isArray, items], or JSON null.  A game  *)
(* is a plain object [id, title, status, note, difficulty] or JSON null.   *)
(***************************************************************************)
NullGame == [isNull |-> TRUE]

IsNullGame(g) == DOMAIN g = {"isNull"}

NullTab == [isNull |-> TRUE]

IsNullTab(t) == DOMAIN t = {"isNull"}

Doc(kind, tabs) == [kind |-> kind, tabs |-> tabs]

JArray(items) == [isArray |-> TRUE, items |-> items]

JNotArray == [isArray |-> FALSE, items |-> <<>>]

\* JSON.stringify(tabsData)
\* A serialisation that loses the games of the tabs.
JSONstringify_noGames(tabs) ==
  Doc("array", [i \in DOMAIN tabs |->
                  [id    |-> tabs[i].id,
                   name  |-> tabs[i].name,
                   games |-> JArray(<<>>)]])

JSONstringify(tabs) ==
  Doc("array", [i \in DOMAIN tabs |->
                  [id    |-> tabs[i].id,
                   name  |-> tabs[i].name,
                   games |-> JArray(tabs[i].games)]])

\* JSON.parse(text) throws on text that is not JSON.
JSONparseThrows(text) == text.kind = "garbage"

(***************************************************************************)
(* assets/js/utils/LocalStorageService.js                                  *)
(***************************************************************************)
\* load(key): the parsed value, or null (kind "absent") when there is no
\* value or the value does not parse.  A stored JSON null, 0, false or ""
\* is returned as it is (kind "falsy").
load(stored) ==
  IF stored.kind = "absent" \/ JSONparseThrows(stored)
  THEN Doc("absent", <<>>)
  ELSE stored

\* A save whose failed write loses the value stored before.
save_clears(stored, data, ok) ==
  IF ok THEN JSONstringify(data) ELSE Doc("absent", <<>>)

\* save(key, data): ok = FALSE is localStorage.setItem throwing (quota).
save(stored, data, ok) == IF ok THEN JSONstringify(data) ELSE stored

(***************************************************************************)
(* assets/js/components/TableManager.js (paging state)                     *)
(***************************************************************************)
ROWS_PER_PAGE == 10

\* tabsData.find((t) => t.id === id) as an index, 0 when there is none.
findTab(tabs, id) == findIndex(tabs, id)

\* A page count that rounds down.
getTotalPages_floor(tabs, idx) ==
  IF idx = 0 THEN 1 ELSE Len(tabs[idx].games) \div ROWS_PER_PAGE

\* getTotalPages() with this.activeTab = tabs[idx] (null when idx = 0).
getTotalPages(tabs, idx) ==
  IF idx = 0 THEN 1 ELSE ceilDiv(Len(tabs[idx].games), ROWS_PER_PAGE)

\* A setState that never returns to page 1.
setState_noClamp(tabs, idx, page) == page

\* setState(activeTab): the page after the call.
setState(tabs, idx, page) ==
  IF idx # 0 /\ page > getTotalPages(tabs, idx) THEN 1 ELSE page

\* A setPage that accepts every page.
setPage_noCheck(tabs, idx, cur, page) == page

\* setPage(page): the page after the call.
setPage(tabs, idx, cur, page) ==
  IF page >= 1 /\ page <= getTotalPages(tabs, idx) THEN page ELSE cur

\* sortGames(games) throws a TypeError: the comparator, which sort calls on
\* every record of two or more, evaluates (aValue || "").toLowerCase() on a
\* title that is truthy and not a string.
sortThrows(games, config) ==
  /\ config.column = "title"
  /\ Len(games) >= 2
  /\ \E g \in DOMAIN games : games[g].title = NUMBER5

\* render() throws, after it has emptied the table: the active tab exists
\* and sortGames throws on its games.  The exception leaves the handler
\* that called render(), setState() or setPage().
renderThrows(tabs, active, config) ==
  LET idx == findTab(tabs, active)
  IN  idx # 0 /\ sortThrows(tabs[idx].games, config)

(***************************************************************************)
(* assets/js/domains/game_tracker.js                                       *)
(***************************************************************************)
Op(name, args, ret) == [name |-> name, args |-> args, ret |-> ret]

\* What tabManager.render(tabsData, activeTabId) and
\* tableManager.setState(activeTab) put on screen: the tabs, and the table of
\* the active one.
rendered(tabs, active) == [tabs |-> tabs, activeTabId |-> active]

\* updateUI(): save, render the tabs, hand the active tab to the TableManager.
\* setState() sets the page before render(), the last call of updateUI(), may
\* throw (renderThrows).
updateUI(tabs, active, page, ok) ==
  /\ localStorage' = save(localStorage, tabs, ok)
  /\ view' = rendered(tabs, active)
  /\ currentPage'  = setState(tabs, findTab(tabs, active), page)

\* The callback of games.map throws a TypeError on this entry: on a null
\* game (data.id of null) and, in importJson, which calls validate() on
\* every record (validating), on a record whose title validate() throws on.
\* initialize does not call validate().
recordThrows(item, validating) ==
  \/ IsNullGame(item)
  \/ validating /\ validateThrows(fromJSON(item, 0))

\* The normalisation throws a TypeError on a null tab (games of null), on
\* games that is not an array (no map method) and on a record its callback
\* throws on.
normalizeThrows(jtabs, validating) ==
  \E i \in DOMAIN jtabs :
     \/ IsNullTab(jtabs[i])
     \/ ~jtabs[i].games.isArray
     \/ \E g \in DOMAIN jtabs[i].games.items :
           recordThrows(jtabs[i].games.items[g], validating)

\* The GameRow constructor reads Date.now() once for every record without
\* an id: the number of readings one array of games asks for.
\* games.map stops at the first record its callback throws on: a null
\* record throws before the reading, validate() after it.
idReads(items, validating) ==
  Cardinality({g \in DOMAIN items :
                 /\ \A h \in 1..(g - 1) : ~recordThrows(items[h], validating)
                 /\ ~IsNullGame(items[g])
                 /\ ~Truthy(items[g].id)})

\* The readings made for the tabs before tab i.
RECURSIVE readsBefore(_, _, _)
readsBefore(jtabs, i, validating) ==
  IF i <= 1 THEN 0
  ELSE readsBefore(jtabs, i - 1, validating)
       + (IF IsNullTab(jtabs[i - 1]) THEN 0
          ELSE idReads(jtabs[i - 1].games.items, validating))

\* The readings the normalisation of jtabs makes: those of every tab, or,
\* when it throws, those made up to the tab and the record it throws on.
normalizeReads(jtabs, validating) ==
  LET last == IF normalizeThrows(jtabs, validating)
              THEN CHOOSE k \in DOMAIN jtabs :
                     /\ normalizeThrows(SubSeq(jtabs, 1, k), validating)
                     /\ ~normalizeThrows(SubSeq(jtabs, 1, k - 1), validating)
              ELSE Len(jtabs)
  IN  readsBefore(jtabs, last + 1, validating)

\* The successive values of Date.now() in a handler that starts at t and
\* reads the clock n times: the clock does not go back, and may advance
\* between two readings.
Clocks(t, n) ==
  {c \in [1..n -> t..MaxClock] : \A k \in 1..(n - 1) : c[k] <= c[k + 1]}

\* The n-th reading (0 for a record that asks for none).
reading(c, n) == IF n \in DOMAIN c THEN c[n] ELSE 0

\* The clock once the handler has made its readings.
clockAfter(c, t) == IF DOMAIN c = {} THEN t ELSE c[Cardinality(DOMAIN c)]

\* The normalisation of initialize and importJson, when it does not throw:
\* games.map(g => GameRow.fromJSON(g).toJSON()); c holds the readings of the
\* clock, before of them made for earlier tabs.
normalizeGames(items, c, before) ==
  [g \in DOMAIN items |->
     toJSON(fromJSON(items[g],
                     reading(c, before
                                + idReads(SubSeq(items, 1, g), FALSE))))]

normalizeTabs(jtabs, c) ==
  [i \in DOMAIN jtabs |->
     [id    |-> jtabs[i].id,
      name  |-> jtabs[i].name,
      games |-> normalizeGames(jtabs[i].games.items, c,
                               readsBefore(jtabs, i, FALSE))]]

\* t => t.id && t.name && Array.isArray(t.games)
tabShape(t) == Truthy(t.id) /\ Truthy(t.name) /\ t.games.isArray

\* A shape test that forgets the id of the tabs.
shapeValid_noId(doc) ==
  /\ doc.kind = "array"
  /\ \A i \in DOMAIN doc.tabs :
        /\ ~IsNullTab(doc.tabs[i])
        /\ Truthy(doc.tabs[i].name)
        /\ doc.tabs[i].games.isArray

\* The shape test of importJson.
shapeValid(doc) ==
  /\ doc.kind = "array"
  /\ \A i \in DOMAIN doc.tabs :
        ~IsNullTab(doc.tabs[i]) /\ tabShape(doc.tabs[i])

\* The shape test throws a TypeError (t.id of null) when every() reaches a
\* null element, that is when every element before it passes.
shapeThrows(doc) ==
  /\ doc.kind = "array"
  /\ \E i \in DOMAIN doc.tabs :
        /\ IsNullTab(doc.tabs[i])
        /\ \A j \in 1..(i - 1) :
              ~IsNullTab(doc.tabs[j]) /\ tabShape(doc.tabs[j])

defaultTab == [id |-> "default_1", name |-> "Minha Lista", games |-> <<>>]

(***************************************************************************)
(* Inputs: the documents the store may hold at startup, the files the user *)
(* may import, and the arguments of the callbacks.                         *)
(***************************************************************************)
Game(id, title, status, note, difficulty) ==
  [id |-> id, title |-> title, status |-> status, note |-> note,
   difficulty |-> difficulty]

JTab(id, name, games) == [id |-> id, name |-> name, games |-> games]

DocEmpty == Doc("array", <<>>)

\* A document this program saved earlier: one tab holding a game whose
\* status is outside GameStatus.
DocStored ==
  Doc("array",
      <<JTab("t1", "RPG",
             JArray(<<Game("g1", "Zelda", "Unknown", "5", "F")>>))>>)

\* One tab holding two games without an id, the first with a status outside
\* GameStatus.
DocMixed ==
  Doc("array",
      <<JTab("t1", "RPG",
             JArray(<<Game(UNDEF, "Zelda", "Unknown", "5", "F"),
                      Game(UNDEF, "Doom", UNDEF, UNDEF, UNDEF)>>))>>)

DocBlankId == Doc("array", <<JTab("", "RPG", JArray(<<>>))>>)

DocNoGames == Doc("array", <<JTab("t1", "RPG", JNotArray)>>)

DocNullGame == Doc("array", <<JTab("t1", "RPG", JArray(<<NullGame>>))>>)

\* A record without an id before a null one: the clock is read once before
\* the normalisation throws.
DocIdlessThenNull ==
  Doc("array",
      <<JTab("t1", "RPG",
             JArray(<<Game(UNDEF, "Zelda", UNDEF, UNDEF, UNDEF), NullGame>>))>>)

\* A record whose title is the number 5, without an id: the clock is read
\* once before validate() throws.
DocNumberTitle ==
  Doc("array",
      <<JTab("t1", "RPG",
             JArray(<<Game(UNDEF, NUMBER5, UNDEF, UNDEF, UNDEF)>>))>>)

\* The array [null].
DocNullTab == Doc("array", <<NullTab>>)

\* A flawed tab before a null one: every() stops at the first.
DocBlankThenNull == Doc("array", <<JTab("", "RPG", JArray(<<>>)), NullTab>>)

\* Two tabs, the first with one game, the second empty.
DocTwoTabs ==
  Doc("array",
      <<JTab("t1", "RPG", JArray(<<Game("g1", "Zelda", "Jogando", "5", "F")>>)),
        JTab("t2", "FPS", JArray(<<>>))>>)

\* Three tabs with one game each.
DocThreeTabs ==
  Doc("array",
      <<JTab("t1", "RPG", JArray(<<Game("g1", "Zelda", "Jogando", "5", "F")>>)),
        JTab("t2", "FPS", JArray(<<Game("g2", "Doom", "Zerado", "8", "D")>>)),
        JTab("t3", "Indie",
             JArray(<<Game("g3", "Celeste", "Pausado", "9", "C")>>))>>)

StoredDocs ==
  {Doc("absent", <<>>), Doc("garbage", <<>>), Doc("falsy", <<>>),
   Doc("object", <<>>), DocEmpty, DocStored, DocMixed, DocNullGame}

ImportDocs == {DocEmpty, DocMixed}

\* The files of the import part: one that does not parse, a JSON null, a
\* plain object, seven arrays with a flaw each, and three that are adopted.
ImportFiles ==
  {Doc("garbage", <<>>), Doc("falsy", <<>>), Doc("object", <<>>), DocBlankId,
   DocNoGames, DocNullGame, DocIdlessThenNull, DocNumberTitle, DocNullTab,
   DocBlankThenNull, DocEmpty, DocMixed, DocTwoTabs}

ids(arr) == {arr[i].id : i \in DOMAIN arr}

\* The ids of the tabs on screen (none before initialize() has rendered
\* them), and one that no tab has.
TabIds == IF pc = "ready" THEN ids(tabsData) ELSE {}

TabIdInputs == TabIds \cup {"ghost"}

GameIdInputs ==
  LET idx == IF pc = "ready" THEN findTab(tabsData, activeTabId) ELSE 0
  IN  (IF idx = 0 THEN {} ELSE ids(tabsData[idx].games)) \cup {"ghost"}

UpdateInputs ==
  {<<"status", "Jogando">>, <<"status", "Abandonado">>, <<"note", "11">>}

\* What the rename field may hold: nothing, white space only, and a name
\* between white space.
RenameInputs == {"", " \t" \o NBSP \o VT, NBSP \o "Indie\t\n"}

(***************************************************************************)
(* The state before DOMContentLoaded: the store holds any document.        *)
(***************************************************************************)
Init ==
  /\ pc = "boot"
  /\ localStorage \in StoredDocs
  /\ tabsData = <<>>
  /\ activeTabId = NULL
  /\ modalState = [tabToRenameId |-> NULL, tabToDeleteId |-> NULL]
  /\ currentPage = 1
  /\ sortConfig = [column |-> NULL, direction |-> "asc"]
  /\ now = 1
  /\ reader = {}
  /\ storageFull = FALSE
  /\ view = rendered(<<>>, NULL)
  /\ op = Op("none", <<>>, "")

\* The store holds a document whose records all carry an id: initialize()
\* does not read the clock on it.
InitWithIds ==
  /\ pc = "boot"
  /\ localStorage \in StoredDocs \ {DocMixed}
  /\ tabsData = <<>>
  /\ activeTabId = NULL
  /\ modalState = [tabToRenameId |-> NULL, tabToDeleteId |-> NULL]
  /\ currentPage = 1
  /\ sortConfig = [column |-> NULL, direction |-> "asc"]
  /\ now = 1
  /\ reader = {}
  /\ storageFull = FALSE
  /\ view = rendered(<<>>, NULL)
  /\ op = Op("none", <<>>, "")

\* Date.now() advances, before initialize() as well as between handlers.
Tick ==
  /\ now < MaxClock
  /\ now' = now + 1
  /\ op' = Op("tick", <<>>, "")
  /\ UNCHANGED <<pc, localStorage, view, tabsData, activeTabId, modalState,
                 currentPage, sortConfig, storageFull, reader>>

\* LocalStorageService.load(STORAGE_KEY) || []
loadedOrEmpty(loaded) ==
  IF loaded.kind \in {"absent", "falsy"} THEN DocEmpty ELSE loaded

\* initialize() throws a TypeError on a stored value that is neither falsy
\* nor an array of tabs with games; nothing is rendered and no listener is
\* installed.
initializeThrows(loaded) ==
  LET data == loadedOrEmpty(loaded)
  IN  data.kind = "object" \/ normalizeThrows(data.tabs, FALSE)

\* The value of tabsData when initialize() has thrown: what was loaded, an
\* array as it was stored, any other value as its document.
rawValue(loaded) ==
  LET data == loadedOrEmpty(loaded)
  IN  IF data.kind = "array" THEN data.tabs ELSE data

\* The readings of the clock initialize() makes.
initializeReads(loaded) ==
  LET data == loadedOrEmpty(loaded)
  IN  IF data.kind = "array" THEN normalizeReads(data.tabs, FALSE) ELSE 0

initializeTabs(loaded, c) ==
  LET data == loadedOrEmpty(loaded)
  IN  IF Len(data.tabs) = 0
      THEN <<defaultTab>>
      ELSE normalizeTabs(data.tabs, c)

\* An initialize that forgets to choose the active tab.
initializeActive_keep(tabs, active) == active

initializeActive(tabs, active) ==
  IF ~Truthy(active) \/ ~(\E i \in DOMAIN tabs : tabs[i].id = active)
  THEN tabs[1].id
  ELSE active

Initialize(ok) ==
  /\ pc = "boot"
  /\ LET loaded == load(localStorage)
     IN  \E c \in Clocks(now, initializeReads(loaded)) :
         /\ now' = clockAfter(c, now)
         /\ IF initializeThrows(loaded)
            THEN /\ pc' = "crashed"
                 /\ tabsData' = rawValue(loaded)
                 /\ op' = Op("initialize", <<>>, "TypeError")
                 /\ UNCHANGED <<localStorage, view, activeTabId, currentPage>>
            ELSE LET tabs   == initializeTabs(loaded, c)
                     active == initializeActive(tabs, activeTabId)
                 IN  /\ pc' = "ready"
                     /\ tabsData' = tabs
                     /\ activeTabId' = active
                     /\ op' = Op("initialize", <<>>, "ok")
                     /\ updateUI(tabs, active, currentPage, ok)
  /\ UNCHANGED <<modalState, sortConfig, storageFull, reader>>

(***************************************************************************)
(* callbacks of the TabManager                                             *)
(***************************************************************************)
\* callbacks.activateTab(id): the active id after the call.
activateTab(tabs, active, id) == id

ActivateTab(id, ok) ==
  /\ pc = "ready"
  /\ activeTabId' = activateTab(tabsData, activeTabId, id)
  /\ op' = Op("activateTab", <<id>>,
              IF renderThrows(tabsData, activeTabId', sortConfig)
              THEN "TypeError" ELSE "ok")
  /\ updateUI(tabsData, activeTabId', currentPage, ok)
  /\ UNCHANGED <<pc, tabsData, modalState, sortConfig, storageFull, now, reader>>

\* The tab callbacks.addTab() creates at clock value t.
newTab(tabs, t) ==
  [id    |-> ToString(t),
   name  |-> "Nova Lista " \o ToString(Len(tabs) + 1),
   games |-> <<>>]

AddTab(ok) ==
  /\ pc = "ready"
  /\ Len(tabsData) < MaxTabs
  /\ tabsData' = Append(tabsData, newTab(tabsData, now))
  /\ activeTabId' = newTab(tabsData, now).id
  /\ op' = Op("addTab", <<>>,
              IF renderThrows(tabsData', activeTabId', sortConfig)
              THEN "TypeError" ELSE "ok")
  /\ updateUI(tabsData', activeTabId', currentPage, ok)
  /\ UNCHANGED <<pc, modalState, sortConfig, storageFull, now, reader>>

OpenRenameModal(id) ==
  /\ pc = "ready"
  /\ modalState' = [modalState EXCEPT !.tabToRenameId = id]
  /\ op' = Op("openRenameModal", <<>>, "ok")
  /\ UNCHANGED <<pc, localStorage, view, tabsData, activeTabId, currentPage,
                 sortConfig, storageFull, now, reader>>

OpenDeleteModal(id) ==
  /\ pc = "ready"
  /\ modalState' = [modalState EXCEPT !.tabToDeleteId = id]
  /\ op' = Op("openDeleteModal", <<>>, "ok")
  /\ UNCHANGED <<pc, localStorage, view, tabsData, activeTabId, currentPage,
                 sortConfig, storageFull, now, reader>>

(***************************************************************************)
(* handleRename and handleDelete (the confirm buttons of the modals)       *)
(***************************************************************************)
\* A handleRename that tests the raw value and forgets to trim it.
renameRejected_noTrim(value) == value = ""

\* handleRename rejects the value of the rename input.
renameRejected(value) == trim(value) = ""

\* The tabs after handleRename with an accepted value.
renameTabs(tabs, id, value) ==
  LET idx == findTab(tabs, id)
  IN  IF idx = 0 THEN tabs ELSE [tabs EXCEPT ![idx].name = trim(value)]

HandleRename(value, ok) ==
  /\ pc = "ready"
  /\ IF renameRejected(value)
     THEN /\ op' = Op("handleRename", <<value>>, "rejected")
          /\ UNCHANGED <<tabsData, localStorage, view, currentPage>>
     ELSE IF findTab(tabsData, modalState.tabToRenameId) = 0
     THEN /\ op' = Op("handleRename", <<value>>, "notfound")
          /\ UNCHANGED <<tabsData, localStorage, view, currentPage>>
     ELSE /\ tabsData' = renameTabs(tabsData, modalState.tabToRenameId, value)
          /\ op' = Op("handleRename", <<value>>,
                      IF renderThrows(tabsData', activeTabId, sortConfig)
                      THEN "TypeError" ELSE "ok")
          /\ updateUI(tabsData', activeTabId, currentPage, ok)
  /\ UNCHANGED <<pc, activeTabId, modalState, sortConfig, storageFull, now, reader>>

\* A handleDelete whose guard is off by one.
deleteRejected_offByOne(tabs) == Len(tabs) < 1

\* handleDelete refuses to act on a collection of this size.
deleteRejected(tabs) == Len(tabs) <= 1

\* The tabs after handleDelete removed the tab with this id.
deleteTabs(tabs, id) ==
  LET idx == findTab(tabs, id)
  IN  IF idx = 0 THEN tabs ELSE splice1(tabs, idx)

\* A handleDelete that activates the last remaining tab.
deleteActive_last(tabs, active, id) ==
  IF active = id
  THEN (IF Len(tabs) > 0 THEN tabs[Len(tabs)].id ELSE NULL)
  ELSE active

\* The active id after handleDelete removed the tab with this id
\* (tabs: the collection after the removal).
deleteActive(tabs, active, id) ==
  IF active = id
  THEN (IF Len(tabs) > 0 THEN tabs[1].id ELSE NULL)
  ELSE active

\* handleDelete takes no argument: op records what it reads, the id the
\* modal holds and the active id at the time of the call.
HandleDelete(ok) ==
  /\ pc = "ready"
  /\ IF deleteRejected(tabsData)
     THEN /\ op' = Op("handleDelete", <<>>, "rejected")
          /\ UNCHANGED <<tabsData, activeTabId, localStorage, view, currentPage>>
     ELSE IF findTab(tabsData, modalState.tabToDeleteId) = 0
     THEN /\ op' = Op("handleDelete", <<>>, "notfound")
          /\ UNCHANGED <<tabsData, activeTabId, localStorage, view, currentPage>>
     ELSE /\ tabsData' = deleteTabs(tabsData, modalState.tabToDeleteId)
          /\ activeTabId' =
               deleteActive(tabsData', activeTabId, modalState.tabToDeleteId)
          /\ op' = Op("handleDelete",
                      <<modalState.tabToDeleteId, activeTabId>>,
                      IF renderThrows(tabsData', activeTabId', sortConfig)
                      THEN "TypeError" ELSE "ok")
          /\ updateUI(tabsData', activeTabId', currentPage, ok)
  /\ UNCHANGED <<pc, modalState, sortConfig, storageFull, now, reader>>

\* An updateGame that writes the value into every record of the tab.
updateGames_all(games, gameId, property, value, t) ==
  [k \in DOMAIN games |->
     LET r == updateProperty(fromJSON(games[k], t), property, value)
     IN  IF r.ret THEN toJSON(r.row) ELSE games[k]]

(***************************************************************************)
(* callbacks of the TableManager                                           *)
(***************************************************************************)
\* Object.assign(gameData, gameRow.toJSON()) on the game found by id.
updateGames(games, gameId, property, value, t) ==
  LET k == findIndex(games, gameId)
  IN  IF k = 0 THEN games
      ELSE LET r == updateProperty(fromJSON(games[k], t), property, value)
           IN  IF r.ret THEN [games EXCEPT ![k] = toJSON(r.row)] ELSE games

\* What updateProperty returned inside updateGame.
updateReturn(games, gameId, property, value, t) ==
  updateProperty(fromJSON(games[findIndex(games, gameId)], t),
                 property, value).ret

UpdateGame(gameId, property, value, ok) ==
  /\ pc = "ready"
  /\ LET idx == findTab(tabsData, activeTabId)
     IN  IF idx = 0
         THEN /\ op' = Op("updateGame", <<>>, "TypeError")
              /\ UNCHANGED <<tabsData, localStorage, view, currentPage>>
         ELSE IF findIndex(tabsData[idx].games, gameId) = 0
         THEN /\ op' = Op("updateGame", <<>>, "notfound")
              /\ UNCHANGED <<tabsData, localStorage, view, currentPage>>
         ELSE IF ~updateReturn(tabsData[idx].games, gameId, property, value, now)
         THEN /\ op' = Op("updateGame", <<gameId, property, value>>, "false")
              /\ UNCHANGED <<tabsData, localStorage, view, currentPage>>
         ELSE /\ tabsData' =
                   [tabsData EXCEPT ![idx].games =
                      updateGames(@, gameId, property, value, now)]
              /\ op' = Op("updateGame", <<gameId, property, value>>,
                          IF renderThrows(tabsData', activeTabId, sortConfig)
                          THEN "TypeError" ELSE "true")
              /\ updateUI(tabsData', activeTabId, currentPage, ok)
  /\ UNCHANGED <<pc, activeTabId, modalState, sortConfig, storageFull, now, reader>>

\* tab.games.filter((g) => g.id !== gameId)
deleteGames(games, gameId) == SelectSeq(games, LAMBDA g : g.id # gameId)

DeleteGame(gameId, ok) ==
  /\ pc = "ready"
  /\ LET idx == findTab(tabsData, activeTabId)
     IN  IF idx = 0
         THEN /\ op' = Op("deleteGame", <<>>, "TypeError")
              /\ UNCHANGED <<tabsData, localStorage, view, currentPage>>
         ELSE /\ tabsData' =
                   [tabsData EXCEPT ![idx].games = deleteGames(@, gameId)]
              /\ op' = Op("deleteGame", <<gameId>>,
                          IF renderThrows(tabsData', activeTabId, sortConfig)
                          THEN "TypeError" ELSE "ok")
              /\ updateUI(tabsData', activeTabId, currentPage, ok)
  /\ UNCHANGED <<pc, activeTabId, modalState, sortConfig, storageFull, now, reader>>

\* An addRow that puts the new record first.
addGames_front(games, t) == <<toJSON(createDefault(Len(games) + 1, t))>> \o games

\* tab.games.push(GameRow.createDefault(tab.games.length + 1).toJSON())
addGames(games, t) == Append(games, toJSON(createDefault(Len(games) + 1, t)))

\* callbacks.addRow(); limit bounds the records of a tab in the model.
\* The record is pushed, then setPage(last) sets the page and renders; when
\* that render() throws, updateUI() is not reached: nothing is saved and the
\* tabs are not rendered.  A setPage that refuses the page does not render,
\* and updateUI() does.
AddRowBounded(limit, ok) ==
  /\ pc = "ready"
  /\ LET idx == findTab(tabsData, activeTabId)
     IN  IF idx = 0
         THEN /\ op' = Op("addRow", <<>>, "noop")
              /\ UNCHANGED <<tabsData, localStorage, view, currentPage>>
         ELSE /\ Len(tabsData[idx].games) < limit
              /\ tabsData' = [tabsData EXCEPT ![idx].games = addGames(@, now)]
              /\ LET last   == ceilDiv(Len(tabsData'[idx].games), ROWS_PER_PAGE)
                     page   == setPage(tabsData', idx, currentPage, last)
                     throws == renderThrows(tabsData', activeTabId, sortConfig)
                 IN  IF throws /\ last >= 1
                               /\ last <= getTotalPages(tabsData', idx)
                     THEN /\ currentPage' = page
                          /\ op' = Op("addRow", <<>>, "TypeError")
                          /\ UNCHANGED <<localStorage, view>>
                     ELSE /\ op' = Op("addRow", <<>>,
                                      IF throws THEN "TypeError" ELSE "ok")
                          /\ updateUI(tabsData', activeTabId, page, ok)
  /\ UNCHANGED <<pc, activeTabId, modalState, sortConfig, storageFull, now, reader>>

AddRow(ok) == AddRowBounded(MaxGames, ok)

\* A handleSort that never flips the direction.
handleSort_alwaysAsc(config, column) ==
  [column |-> column, direction |-> "asc"]

\* The sort state after handleSort(column).
handleSort(config, column) ==
  IF config.column = column
  THEN [config EXCEPT !.direction = IF @ = "asc" THEN "desc" ELSE "asc"]
  ELSE [column |-> column, direction |-> "asc"]

\* A click on a column header: handleSort(column), which returns to page 1
\* and renders.
HandleSort(column) ==
  /\ pc = "ready"
  /\ findTab(tabsData, activeTabId) # 0
  /\ sortConfig' = handleSort(sortConfig, column)
  /\ currentPage' = 1
  /\ op' = Op("handleSort", <<>>,
              IF renderThrows(tabsData, activeTabId, sortConfig')
              THEN "TypeError" ELSE "ok")
  /\ UNCHANGED <<pc, localStorage, view, tabsData, activeTabId, modalState, now,
                 reader, storageFull>>

\* A call of setPage(page) (the pagination buttons): an accepted page is set
\* and rendered.
SetPage(page) ==
  /\ pc = "ready"
  /\ currentPage' =
       setPage(tabsData, findTab(tabsData, activeTabId), currentPage, page)
  /\ op' = Op("setPage", <<>>,
              IF /\ page >= 1
                 /\ page <= getTotalPages(tabsData,
                                          findTab(tabsData, activeTabId))
                 /\ renderThrows(tabsData, activeTabId, sortConfig)
              THEN "TypeError" ELSE "ok")
  /\ UNCHANGED <<pc, localStorage, view, tabsData, activeTabId, modalState,
                 sortConfig, now, reader, storageFull>>

(***************************************************************************)
(* sortGames.  Strings are compared as JavaScript compares them, by the    *)
(* code units of their characters: CodeUnits lists the characters the      *)
(* model uses, in the order of their codes.                                *)
(***************************************************************************)
CodeUnits == " -0123456789ABCDEFGHIJKLMNOPQRSTUVWXYZabcdefghijklmnopqrstuvwxyz"

UpperCase == "ABCDEFGHIJKLMNOPQRSTUVWXYZ"

LowerCase == "abcdefghijklmnopqrstuvwxyz"

\* The digits of parseInt, in upper and lower case.
HexDigits == "0123456789abcdefABCDEF"

\* The position of the character c in the string table (0: not in it).
indexIn(table, c) ==
  IF \E i \in 1..Len(table) : SubSeq(table, i, i) = c
  THEN CHOOSE i \in 1..Len(table) : SubSeq(table, i, i) = c
  ELSE 0

\* The characters of CodeUnits, each with its rank among the code units and
\* with its lower-case form.
Characters == {SubSeq(CodeUnits, i, i) : i \in 1..Len(CodeUnits)}

codeUnit == [c \in Characters |-> indexIn(CodeUnits, c)]

lowerCase ==
  [c \in Characters |->
     IF indexIn(UpperCase, c) = 0 THEN c
     ELSE SubSeq(LowerCase, indexIn(UpperCase, c), indexIn(UpperCase, c))]

\* String.prototype.toLowerCase
RECURSIVE toLowerCase(_)
toLowerCase(s) ==
  IF Len(s) = 0 THEN ""
  ELSE lowerCase[SubSeq(s, 1, 1)] \o toLowerCase(SubSeq(s, 2, Len(s)))

\* a < b on strings.
RECURSIVE stringLess(_, _)
stringLess(a, b) ==
  IF Len(b) = 0 THEN FALSE
  ELSE IF Len(a) = 0 THEN TRUE
  ELSE LET ca == codeUnit[SubSeq(a, 1, 1)]
           cb == codeUnit[SubSeq(b, 1, 1)]
       IN  IF ca # cb THEN ca < cb
           ELSE stringLess(SubSeq(a, 2, Len(a)), SubSeq(b, 2, Len(b)))

\* The value of the character c as a digit of the radix (-1: not a digit).
digitOf(c, radix) ==
  LET i == indexIn(HexDigits, c)
      d == IF i > 16 THEN i - 7 ELSE i - 1
  IN  IF d < radix THEN d ELSE -1

\* The value of the leading digits of s, after v was read from earlier ones.
RECURSIVE digitsValue(_, _, _)
digitsValue(s, v, radix) ==
  IF Len(s) = 0 \/ digitOf(SubSeq(s, 1, 1), radix) < 0 THEN v
  ELSE digitsValue(SubSeq(s, 2, Len(s)),
                   radix * v + digitOf(SubSeq(s, 1, 1), radix), radix)

\* parseInt(v) || 0: v is converted to a string, leading white space is
\* skipped, then one sign, then the
\* prefix 0x or 0X that selects radix 16; the leading digits of the radix
\* are read, and NaN (no digit) gives 0.
parseIntOr0(v) ==
  IF ~Truthy(v) THEN 0
  ELSE LET s      == trimStart(String(v))
           signed == Len(s) > 0 /\ SubSeq(s, 1, 1) \in {"+", "-"}
           t      == IF signed THEN SubSeq(s, 2, Len(s)) ELSE s
           hex    == Len(t) >= 2 /\ SubSeq(t, 1, 2) \in {"0x", "0X"}
           u      == IF hex THEN SubSeq(t, 3, Len(t)) ELSE t
           n      == digitsValue(u, 0, IF hex THEN 16 ELSE 10)
       IN  IF signed /\ SubSeq(s, 1, 1) = "-" THEN 0 - n ELSE n

difficultyOrder == <<"F", "E-", "E", "E+", "D-", "D", "D+", "C-", "C", "C+",
                     "B-", "B", "B+", "A-", "A", "A+", "S", "S+">>

\* Array.prototype.indexOf, 0-based as in JavaScript (-1: not found).
indexOf(arr, v) ==
  IF \E i \in DOMAIN arr : arr[i] = v
  THEN (CHOOSE i \in DOMAIN arr : arr[i] = v /\ \A j \in 1..(i - 1) : arr[j] # v) - 1
  ELSE -1

\* aValue / bValue of the comparator after its normalisation (of a title
\* that is a string or falsy: on any other title it throws, sortThrows).
sortValue(game, column) ==
  CASE column = "title"      -> toLowerCase(Or(game.title, ""))
    [] column = "note"       -> parseIntOr0(game.note)
    [] column = "difficulty" -> indexOf(difficultyOrder, game.difficulty)
    [] column = "status"     -> indexOf(statusOrder, game.status)

valueLess(x, y, column) ==
  IF column = "title" THEN stringLess(x, y) ELSE x < y

\* The comparator of sortGames: -1, 0 or 1.
compareGames(a, b, config) ==
  LET aValue == sortValue(a, config.column)
      bValue == sortValue(b, config.column)
  IN  IF valueLess(aValue, bValue, config.column)
      THEN (IF config.direction = "asc" THEN -1 ELSE 1)
      ELSE IF valueLess(bValue, aValue, config.column)
      THEN (IF config.direction = "asc" THEN 1 ELSE -1)
      ELSE 0

\* Array.prototype.sort is stable: x, which came after every element of
\* sorted, goes before the first element it compares below.
RECURSIVE insertStable(_, _, _)
insertStable(sorted, x, config) ==
  IF Len(sorted) = 0 THEN <<x>>
  ELSE IF compareGames(x, sorted[Len(sorted)], config) < 0
  THEN Append(insertStable(SubSeq(sorted, 1, Len(sorted) - 1), x, config),
              sorted[Len(sorted)])
  ELSE Append(sorted, x)

RECURSIVE sortStable(_, _)
sortStable(games, config) ==
  IF Len(games) = 0 THEN <<>>
  ELSE insertStable(sortStable(SubSeq(games, 1, Len(games) - 1), config),
                    games[Len(games)], config)

\* A sortGames that ignores the direction.
sortGames_ascOnly(games, config) ==
  IF ~Truthy(config.column) THEN games
  ELSE sortStable(games, [config EXCEPT !.direction = "asc"])

\* sortGames(games) under this.sortConfig = config.
sortGames(games, config) ==
  IF ~Truthy(config.column) THEN games ELSE sortStable(games, config)

\* A slice that starts one page too far.
sliceFirst_next(page) == page * ROWS_PER_PAGE + 1

\* render(): the bounds of sortedGames.slice(startIndex, endIndex) as
\* 1-based positions, and the slice of the games in their sorted order.
sliceFirst(page) == (page - 1) * ROWS_PER_PAGE + 1

sliceLast(n, page) ==
  IF page * ROWS_PER_PAGE < n THEN page * ROWS_PER_PAGE ELSE n

gamesToDisplay(sortedGames, page) ==
  SubSeq(sortedGames, sliceFirst(page), sliceLast(Len(sortedGames), page))

\* An importJson that empties the collection when the read starts.
ImportJson_eager(doc) ==
  /\ pc = "ready"
  /\ Cardinality(reader) < MaxReads
  /\ doc \notin reader
  /\ reader' = reader \cup {doc}
  /\ op' = Op("importJson", <<>>, "reading")
  /\ tabsData' = <<>>
  /\ activeTabId' = NULL
  /\ UNCHANGED <<pc, localStorage, view, modalState,
                 currentPage, sortConfig, storageFull, now>>

(***************************************************************************)
(* importJson: the change handler starts a FileReader; its onload callback *)
(* runs later, as a task of its own.                                       *)
(***************************************************************************)
ImportJson(doc) ==
  /\ pc = "ready"
  /\ Cardinality(reader) < MaxReads
  /\ doc \notin reader
  /\ reader' = reader \cup {doc}
  /\ op' = Op("importJson", <<>>, "reading")
  /\ UNCHANGED <<pc, localStorage, view, tabsData, activeTabId, modalState,
                 currentPage, sortConfig, storageFull, now>>

\* What reader.onload does with the text: "parseError" is the catch branch
\* reached before the confirmation (JSON.parse or the shape test threw),
\* "processError" the catch branch reached after it (the normalisation,
\* which validates every record, threw), "shapeError" the else branch of the
\* shape test.
importOutcome(doc, confirmed) ==
  IF JSONparseThrows(doc) \/ shapeThrows(doc) THEN "parseError"
  ELSE IF ~shapeValid(doc) THEN "shapeError"
  ELSE IF ~confirmed THEN "declined"
  ELSE IF normalizeThrows(doc.tabs, TRUE) THEN "processError"
  ELSE "imported"

\* An import that activates the last tab it adopted.
importActive_last(tabs) == IF Len(tabs) > 0 THEN tabs[Len(tabs)].id ELSE NULL

\* activeTabId after an import adopted tabs.
importActive(tabs) == IF Len(tabs) > 0 THEN tabs[1].id ELSE NULL

ReaderOnload(doc, confirmed, ok) ==
  /\ pc = "ready"
  /\ doc \in reader
  /\ reader' = reader \ {doc}
  /\ op' = Op("importJson.onload", <<confirmed>>, importOutcome(doc, confirmed))
  /\ IF importOutcome(doc, confirmed) \in {"imported", "processError"}
     THEN \E c \in Clocks(now, normalizeReads(doc.tabs, TRUE)) :
          /\ now' = clockAfter(c, now)
          /\ IF importOutcome(doc, confirmed) = "imported"
             THEN /\ tabsData' = normalizeTabs(doc.tabs, c)
                  /\ activeTabId' = importActive(tabsData')
                  /\ updateUI(tabsData', activeTabId', currentPage, ok)
             ELSE UNCHANGED <<tabsData, activeTabId, localStorage, view,
                              currentPage>>
     ELSE UNCHANGED <<tabsData, activeTabId, localStorage, view, currentPage,
                      now>>
  /\ UNCHANGED <<pc, modalState, sortConfig, storageFull>>

(***************************************************************************)
(* The specification: every handler of the controller, with every save     *)
(* succeeding.                                                             *)
(***************************************************************************)
Step(ok) ==
  \/ Initialize(ok)
  \/ Tick
  \/ \E id \in TabIdInputs : ActivateTab(id, ok)
  \/ AddTab(ok)
  \/ \E id \in TabIds : OpenRenameModal(id)
  \/ \E id \in TabIds : OpenDeleteModal(id)
  \/ \E value \in RenameInputs : HandleRename(value, ok)
  \/ HandleDelete(ok)
  \/ \E gameId \in GameIdInputs, u \in UpdateInputs :
        UpdateGame(gameId, u[1], u[2], ok)
  \/ \E gameId \in GameIdInputs : DeleteGame(gameId, ok)
  \/ AddRow(ok)
  \/ \E doc \in ImportDocs : ImportJson(doc)
  \/ \E doc \in reader, confirmed \in BOOLEAN : ReaderOnload(doc, confirmed, ok)

Next == Step(TRUE)

Spec == Init /\ [][Next]_vars

(***************************************************************************)
(* Two parts of the specification, small enough to be explored at larger   *)
(* bounds: the handlers around handleDelete, and those around handleRename.*)
(* In the first, an import may bring three tabs at once.                   *)
(***************************************************************************)
StepDelete(ok) ==
  \/ Initialize(ok)
  \/ Tick
  \/ \E id \in TabIdInputs : ActivateTab(id, ok)
  \/ AddTab(ok)
  \/ \E id \in TabIds : OpenDeleteModal(id)
  \/ HandleDelete(ok)
  \/ \E doc \in ImportDocs \cup {DocThreeTabs} : ImportJson(doc)
  \/ \E doc \in reader, confirmed \in BOOLEAN : ReaderOnload(doc, confirmed, ok)

NextDelete == StepDelete(TRUE)

SpecDelete == Init /\ [][NextDelete]_vars

StepRename(ok) ==
  \/ Initialize(ok)
  \/ Tick
  \/ \E id \in TabIdInputs : ActivateTab(id, ok)
  \/ AddTab(ok)
  \/ \E id \in TabIds : OpenRenameModal(id)
  \/ \E value \in RenameInputs : HandleRename(value, ok)
  \/ AddRow(ok)

NextRename == StepRename(TRUE)

SpecRename == InitWithIds /\ [][NextRename]_vars

(***************************************************************************)
(* The import part: files of every kind, over collections built with       *)
(* addTab and addRow.                                                      *)
(***************************************************************************)
StepImport(ok) ==
  \/ Initialize(ok)
  \/ Tick
  \/ AddTab(ok)
  \/ AddRow(ok)
  \/ \E doc \in ImportFiles : ImportJson(doc)
  \/ \E doc \in reader, confirmed \in BOOLEAN : ReaderOnload(doc, confirmed, ok)

NextImport == StepImport(TRUE)

SpecImport == InitWithIds /\ [][NextImport]_vars

(***************************************************************************)
(* The persistence part: every handler that ends in updateUI, with few     *)
(* inputs each and every save succeeding.                                  *)
(***************************************************************************)
\* A file exported from a list that was never edited.
DocFresh == Doc("array", <<JTab("default_1", "Minha Lista", JArray(<<>>))>>)

StepSave(ok) ==
  \/ Initialize(ok)
  \/ \E id \in TabIds : ActivateTab(id, ok)
  \/ AddTab(ok)
  \/ \E id \in TabIds : OpenRenameModal(id)
  \/ \E id \in TabIds : OpenDeleteModal(id)
  \/ \E value \in {" Indie "} : HandleRename(value, ok)
  \/ HandleDelete(ok)
  \/ \E gameId \in GameIdInputs, u \in {<<"status", "Zerado">>} :
        UpdateGame(gameId, u[1], u[2], ok)
  \/ \E gameId \in GameIdInputs : DeleteGame(gameId, ok)
  \/ AddRow(ok)
  \/ \E doc \in {DocFresh} : ImportJson(doc)
  \/ \E doc \in reader, confirmed \in BOOLEAN : ReaderOnload(doc, confirmed, ok)

NextSave == StepSave(TRUE)

SpecSave == InitWithIds /\ [][NextSave]_vars

(***************************************************************************)
(* The quota part: the store fills up and is freed again while handlers    *)
(* run; localStorage.setItem throws while the store is full.               *)
(***************************************************************************)
FillStorage ==
  /\ pc # "crashed"
  /\ ~storageFull
  /\ storageFull' = TRUE
  /\ op' = Op("storage", <<>>, "full")
  /\ UNCHANGED <<pc, localStorage, tabsData, activeTabId, modalState,
                 currentPage, sortConfig, now, reader, view>>

FreeStorage ==
  /\ pc # "crashed"
  /\ storageFull
  /\ storageFull' = FALSE
  /\ op' = Op("storage", <<>>, "free")
  /\ UNCHANGED <<pc, localStorage, tabsData, activeTabId, modalState,
                 currentPage, sortConfig, now, reader, view>>

\* A save succeeds exactly when the store is not full.
NextQuota ==
  \/ Initialize(~storageFull)
  \/ \E id \in TabIds : ActivateTab(id, ~storageFull)
  \/ AddTab(~storageFull)
  \/ \E gameId \in GameIdInputs, u \in {<<"status", "Zerado">>} :
        UpdateGame(gameId, u[1], u[2], ~storageFull)
  \/ \E gameId \in GameIdInputs : DeleteGame(gameId, ~storageFull)
  \/ AddRow(~storageFull)
  \/ \E doc \in {DocFresh} : ImportJson(doc)
  \/ \E doc \in reader, confirmed \in BOOLEAN :
        ReaderOnload(doc, confirmed, ~storageFull)
  \/ FillStorage
  \/ FreeStorage

SpecQuota == InitWithIds /\ [][NextQuota]_vars

(***************************************************************************)
(* The paging part: one tab that grows beyond a page, with the handlers of *)
(* the TableManager.                                                       *)
(***************************************************************************)
PageInputs == 0..3

\* A document this program saved earlier: one tab with two games.
DocPaged ==
  Doc("array",
      <<JTab("t1", "RPG",
             JArray(<<Game("g1", "Zelda", "Jogando", "5", "F"),
                      Game("g2", "Doom", "Zerado", "7", "E")>>))>>)

InitPaging ==
  /\ pc = "boot"
  /\ localStorage \in {Doc("absent", <<>>), DocPaged}
  /\ tabsData = <<>>
  /\ activeTabId = NULL
  /\ modalState = [tabToRenameId |-> NULL, tabToDeleteId |-> NULL]
  /\ currentPage = 1
  /\ sortConfig = [column |-> NULL, direction |-> "asc"]
  /\ now = 1
  /\ reader = {}
  /\ storageFull = FALSE
  /\ view = rendered(<<>>, NULL)
  /\ op = Op("none", <<>>, "")

StepPaging(ok) ==
  \/ Initialize(ok)
  \/ \E id \in TabIdInputs : ActivateTab(id, ok)
  \/ AddRowBounded(MaxRows, ok)
  \/ \E gameId \in GameIdInputs : DeleteGame(gameId, ok)
  \/ \E page \in PageInputs : SetPage(page)
  \/ \E column \in {"title"} : HandleSort(column)
  \/ \E doc \in {DocTwoTabs} : ImportJson(doc)
  \/ \E doc \in reader, confirmed \in BOOLEAN : ReaderOnload(doc, confirmed, ok)

NextPaging == StepPaging(TRUE)

SpecPaging == InitPaging /\ [][NextPaging]_vars

(***************************************************************************)
(* The round-trip slice: the collection is exported and the downloaded     *)
(* file imported again, or the page is reloaded and the collection read    *)
(* back from the store.                                                    *)
(***************************************************************************)
\* exportToJson(): the text of the downloaded file; no file (kind "absent")
\* when the export is refused because there are no tabs.
exportToJson(tabs) ==
  IF Len(tabs) = 0 THEN Doc("absent", <<>>) ELSE JSONstringify(tabs)

ExportToJson ==
  /\ pc = "ready"
  /\ op' = IF exportToJson(tabsData).kind = "absent"
           THEN Op("exportToJson", <<>>, "refused")
           ELSE Op("exportToJson", <<exportToJson(tabsData)>>, "downloaded")
  /\ UNCHANGED <<pc, localStorage, view, tabsData, activeTabId, modalState,
                 currentPage, sortConfig, now, reader, storageFull>>

\* The file just downloaded is chosen in the import dialog.
ImportExported ==
  /\ op.name = "exportToJson"
  /\ op.ret = "downloaded"
  /\ ImportJson(op.args[1])

\* The page is reloaded: the script starts again with its initial values
\* and DOMContentLoaded runs initialize() on the stored document.
Reload(ok) ==
  /\ pc # "boot"
  /\ LET loaded == load(localStorage)
     IN  \E c \in Clocks(now, initializeReads(loaded)) :
         /\ now' = clockAfter(c, now)
         /\ IF initializeThrows(loaded)
            THEN /\ pc' = "crashed"
                 /\ op' = Op("reload", <<>>, "TypeError")
                 /\ tabsData' = rawValue(loaded)
                 /\ activeTabId' = NULL
                 /\ view' = rendered(<<>>, NULL)
                 /\ currentPage' = 1
                 /\ UNCHANGED localStorage
            ELSE LET tabs   == initializeTabs(loaded, c)
                     active == initializeActive(tabs, NULL)
                 IN  /\ pc' = "ready"
                     /\ tabsData' = tabs
                     /\ activeTabId' = active
                     /\ op' = Op("reload", <<>>, "ok")
                     /\ updateUI(tabs, active, 1, ok)
  /\ modalState' = [tabToRenameId |-> NULL, tabToDeleteId |-> NULL]
  /\ sortConfig' = [column |-> NULL, direction |-> "asc"]
  /\ reader' = {}
  /\ UNCHANGED storageFull

StepRoundTrip(ok) ==
  \/ Initialize(ok)
  \/ AddTab(ok)
  \/ AddRow(ok)
  \/ \E gameId \in GameIdInputs, u \in {<<"status", "Zerado">>} :
        UpdateGame(gameId, u[1], u[2], ok)
  \/ \E doc \in ImportDocs : ImportJson(doc)
  \/ \E doc \in reader, confirmed \in BOOLEAN : ReaderOnload(doc, confirmed, ok)
  \/ ExportToJson
  \/ ImportExported
  \/ Reload(ok)

NextRoundTrip == StepRoundTrip(TRUE)

SpecRoundTrip == Init /\ [][NextRoundTrip]_vars

(***************************************************************************)
(* The table slice: sorting, editing and deleting the records of a stored  *)
(* document whose records have tied, unparsable, numeric and out-of-domain *)
(* values.                                                                 *)
(***************************************************************************)
DocTable ==
  Doc("array",
      <<JTab("t1", "RPG",
             JArray(<<Game("g1", "Zelda", "Unknown", "3", "F"),
                      Game("g2", "doom", "Jogando", "10", "S+"),
                      Game("g3", "ZELDA", "Jogando", "0", "F"),
                      Game("g4", "Apex", "Abandonado", "abc", "E"),
                      Game("g6", "Halo", "Zerado", NUMBER5, "D")>>)),
        JTab("t2", "FPS",
             JArray(<<Game("g5", "Quake", "Pausado", "+5", "E")>>))>>)

SortColumns == {"title", "status", "note", "difficulty"}

TableUpdateInputs ==
  {<<"note", "10">>, <<"status", "Abandonado">>, <<"platform", "PC">>}

InitTable ==
  /\ pc = "boot"
  /\ localStorage = DocTable
  /\ tabsData = <<>>
  /\ activeTabId = NULL
  /\ modalState = [tabToRenameId |-> NULL, tabToDeleteId |-> NULL]
  /\ currentPage = 1
  /\ sortConfig = [column |-> NULL, direction |-> "asc"]
  /\ now = 1
  /\ reader = {}
  /\ storageFull = FALSE
  /\ view = rendered(<<>>, NULL)
  /\ op = Op("none", <<>>, "")

StepTable(ok) ==
  \/ Initialize(ok)
  \/ \E id \in TabIdInputs : ActivateTab(id, ok)
  \/ \E gameId \in GameIdInputs, u \in TableUpdateInputs :
        UpdateGame(gameId, u[1], u[2], ok)
  \/ \E gameId \in GameIdInputs : DeleteGame(gameId, ok)
  \/ \E page \in PageInputs : SetPage(page)
  \/ \E column \in SortColumns : HandleSort(column)

NextTable == StepTable(TRUE)

SpecTable == InitTable /\ [][NextTable]_vars

(***************************************************************************)
(* The sort slice: a group that grows over more than one page while the    *)
(* user clicks the four sortable headers and the pagination buttons.       *)
(***************************************************************************)
StepSort(ok) ==
  \/ Initialize(ok)
  \/ AddRowBounded(MaxRows, ok)
  \/ \E page \in PageInputs : SetPage(page)
  \/ \E column \in SortColumns : HandleSort(column)

NextSort == StepSort(TRUE)

SpecSort == InitPaging /\ [][NextSort]_vars

Ready == pc = "ready"

TypeOK ==
  /\ pc \in {"boot", "ready", "crashed"}
  /\ now \in 1..MaxClock
  /\ currentPage >= 1

(***************************************************************************)
(* Properties.                                                             *)
(***************************************************************************)
\* s consists of white space only (it is empty after trimming).
Blank(s) == \A i \in 1..Len(s) : SubSeq(s, i, i) \in WhiteSpace

\* r is s without its leading and trailing white space.
IsTrimOf(r, s) ==
  \/ Blank(s) /\ r = ""
  \/ \E i \in 1..Len(s), j \in 1..Len(s) :
        /\ i <= j
        /\ r = SubSeq(s, i, j)
        /\ SubSeq(s, i, i) \notin WhiteSpace
        /\ SubSeq(s, j, j) \notin WhiteSpace
        /\ Blank(SubSeq(s, 1, i - 1)) /\ Blank(SubSeq(s, j + 1, Len(s)))

\* after is before without its element at index i.
RemovedAt(before, after, i) ==
  /\ Len(after) = Len(before) - 1
  /\ \A j \in 1..Len(after) :
        after[j] = IF j < i THEN before[j] ELSE before[j + 1]

\* C1: after bootstrap the collection always holds at least one group.
C1_AtLeastOneGroup == Ready => Len(tabsData) >= 1

\* C2: after bootstrap, the active id of a non-empty collection is the id of
\* one of its groups.
C2_ActiveExists ==
  (Ready /\ Len(tabsData) > 0) => activeTabId \in ids(tabsData)

\* C3: after bootstrap every record's status, note and difficulty belong to
\* GameStatus, GameNote and GameDifficulty.
C3_EnumeratedFields ==
  Ready =>
    \A i \in DOMAIN tabsData :
       \A g \in DOMAIN tabsData[i].games :
          LET game == tabsData[i].games[g]
          IN  /\ includes(GameStatus, game.status)
              /\ includes(GameNote, game.note)
              /\ includes(GameDifficulty, game.difficulty)

\* The enumeration of an enumerated property.
EnumOf(property) ==
  CASE property = "status"     -> GameStatus
    [] property = "note"       -> GameNote
    [] property = "difficulty" -> GameDifficulty

\* The step is updateGame reaching updateProperty(property, value) on a game
\* of the active tab.
IsUpdate(o) == o.name = "updateGame" /\ o.ret \in {"true", "false"}

\* C4: updateProperty on status, note or difficulty with a value outside the
\* enumeration returns false and leaves the record as it was.
C4_InvalidValueReturnsFalse ==
  [][(/\ IsUpdate(op')
      /\ op'.args[2] \in {"status", "note", "difficulty"}
      /\ ~includes(EnumOf(op'.args[2]), op'.args[3]))
     => (op'.ret = "false" /\ tabsData' = tabsData)]_vars

\* C5: each of the five documented statuses is accepted: after
\* updateGame(id, "status", v) the record with that id has status v.
C5_DocumentedStatusAccepted ==
  (/\ IsUpdate(op)
   /\ op.args[2] = "status"
   /\ includes(statusOrder, op.args[3]))
  => LET games == tabsData[findTab(tabsData, activeTabId)].games
     IN  games[findIndex(games, op.args[1])].status = op.args[3]

\* C6: handleDelete on a collection of exactly one group changes neither the
\* collection, nor the active id, nor the stored document.
C6_LastGroupKept ==
  [][(op'.name = "handleDelete" /\ Len(tabsData) = 1)
     => /\ tabsData' = tabsData
        /\ Len(tabsData') = 1
        /\ activeTabId' = activeTabId
        /\ localStorage' = localStorage]_vars

C6_Witness ==
  /\ op.name = "handleDelete"
  /\ op.ret = "rejected"
  /\ Len(tabsData) = 1
  /\ modalState.tabToDeleteId = tabsData[1].id

\* C7: handleDelete of a present group g among two or more removes one group
\* with id g, keeps the others (records included) in order, moves the active
\* id to the first remaining group when g was active and keeps it otherwise.
C7_DeleteGroup ==
  [][(/\ op'.name = "handleDelete"
      /\ Len(tabsData) >= 2
      /\ modalState.tabToDeleteId \in ids(tabsData))
     => /\ \E i \in DOMAIN tabsData :
              /\ tabsData[i].id = modalState.tabToDeleteId
              /\ RemovedAt(tabsData, tabsData', i)
        /\ activeTabId' = IF activeTabId = modalState.tabToDeleteId
                          THEN tabsData'[1].id
                          ELSE activeTabId]_vars

\* The second of the three tabs of DocThreeTabs was active and has been
\* deleted: the first and the third remain, in that order and with their
\* records, and the first (neither the next nor the last) is active.
C7_Witness ==
  /\ op.name = "handleDelete"
  /\ op.ret = "ok"
  /\ op.args = <<"t2", "t2">>
  /\ Len(tabsData) = 2
  /\ tabsData[1].id = "t1" /\ tabsData[1].games[1].id = "g1"
  /\ tabsData[2].id = "t3" /\ tabsData[2].games[1].id = "g3"
  /\ activeTabId = "t1"

\* C8: activateTab with an id that no group has leaves the active id as it
\* was.
C8_ActivateUnknownIsNoOp ==
  [][(op'.name = "activateTab" /\ op'.args[1] \notin ids(tabsData))
     => activeTabId' = activeTabId]_vars

\* C9: handleRename with a value that is blank after trimming changes nothing
\* and does not save; with any other value it sets the name of the targeted
\* group to the trimmed value and changes nothing else.
C9_Rename ==
  [][op'.name = "handleRename"
     => IF Blank(op'.args[1])
        THEN /\ tabsData' = tabsData
             /\ localStorage' = localStorage
             /\ activeTabId' = activeTabId
        ELSE /\ activeTabId' = activeTabId
             /\ Len(tabsData') = Len(tabsData)
             /\ \A i \in DOMAIN tabsData :
                   /\ tabsData'[i].id = tabsData[i].id
                   /\ tabsData'[i].games = tabsData[i].games
                   /\ \/ tabsData'[i].name = tabsData[i].name
                      \/ /\ tabsData[i].id = modalState.tabToRenameId
                         /\ IsTrimOf(tabsData'[i].name, op'.args[1])
             /\ Cardinality({i \in DOMAIN tabsData :
                               tabsData'[i].name # tabsData[i].name}) <= 1
             /\ modalState.tabToRenameId \in ids(tabsData)
                  => \E i \in DOMAIN tabsData :
                        /\ tabsData[i].id = modalState.tabToRenameId
                        /\ IsTrimOf(tabsData'[i].name, op'.args[1])]_vars

C9_Witness ==
  /\ op.name = "handleRename"
  /\ op.ret = "ok"
  /\ op.args[1] = NBSP \o "Indie\t\n"
  /\ Len(tabsData) = 2
  /\ \E i \in DOMAIN tabsData :
        /\ tabsData[i].id = modalState.tabToRenameId
        /\ tabsData[i].name = "Indie"
        /\ Len(tabsData[i].games) >= 1

\* C10: no two groups share an id and no two records of a group share an id.
C10_UniqueIds ==
  Ready =>
    /\ \A i, j \in DOMAIN tabsData :
          tabsData[i].id = tabsData[j].id => i = j
    /\ \A i \in DOMAIN tabsData :
          \A g, h \in DOMAIN tabsData[i].games :
             tabsData[i].games[g].id = tabsData[i].games[h].id => g = h

\* The file of a finished read: the one that left the reader in this step.
ReadFiles == reader \ reader'

\* doc is JSON text of an array whose elements are all objects with a
\* non-empty id, a non-empty name and an array as games.
WellShaped(doc) ==
  /\ doc.kind = "array"
  /\ \A i \in DOMAIN doc.tabs :
        /\ doc.tabs[i] # NullTab
        /\ doc.tabs[i].id \notin {UNDEF, NULL, ""}
        /\ doc.tabs[i].name \notin {UNDEF, NULL, ""}
        /\ doc.tabs[i].games.isArray

\* C11: an import changes tabsData, activeTabId or the stored document only
\* when the file parses, is an array of well-shaped tabs and the user
\* confirms; a file that does not parse, a failed shape test or a declined
\* confirmation leaves the three as they were.
C11_ImportGuard ==
  [][op'.name = "importJson.onload" =>
       \A doc \in ReadFiles :
          ~(WellShaped(doc) /\ op'.args[1]) =>
             UNCHANGED <<tabsData, activeTabId, localStorage>>]_vars

\* A file of the wrong shape was read, confirmed, and refused while the
\* collection held two tabs.
C11_Witness ==
  /\ op.name = "importJson.onload"
  /\ op.ret = "shapeError"
  /\ op.args[1]
  /\ Len(tabsData) = 2

\* doc is adopted when confirmed: well shaped, every game is an object, and
\* its title is a string when it has one.
Adoptable(doc) ==
  /\ WellShaped(doc)
  /\ \A i \in DOMAIN doc.tabs : \A g \in DOMAIN doc.tabs[i].games.items :
        /\ ~IsNullGame(doc.tabs[i].games.items[g])
        /\ doc.tabs[i].games.items[g].title # NUMBER5

\* The status of a game of a file lies outside GameStatus.
OutOfDomainStatus(game) ==
  /\ game.status \notin {UNDEF, NULL, ""}
  /\ \A k \in DOMAIN GameStatus : GameStatus[k] # game.status

\* C12: a confirmed import of a well-shaped file with a record whose status
\* is outside GameStatus succeeds; the adopted record keeps that status, and
\* validate() on it is not valid, with an error message naming the status.
C12_OutOfDomainStatusKept ==
  [][op'.name = "importJson.onload" =>
       \A doc \in ReadFiles :
          (Adoptable(doc) /\ op'.args[1]) =>
             \A i \in DOMAIN doc.tabs : \A g \in DOMAIN doc.tabs[i].games.items :
                LET src == doc.tabs[i].games.items[g]
                IN  OutOfDomainStatus(src) =>
                      /\ op'.ret = "imported"
                      /\ tabsData'[i].games[g].status = src.status
                      /\ LET row == fromJSON(tabsData'[i].games[g], now')
                         IN  /\ ~validate(row)
                             /\ \E e \in DOMAIN validateErrors(row) :
                                   validateErrors(row)[e] =
                                     "Status \"" \o src.status \o "\" é inválido"]_vars

\* An import was adopted and left a record with the status "Unknown".
C12_Witness ==
  /\ op.name = "importJson.onload"
  /\ op.ret = "imported"
  /\ \E i \in DOMAIN tabsData : \E g \in DOMAIN tabsData[i].games :
        tabsData[i].games[g].status = "Unknown"

\* v, or the fallback when v is absent, null or empty.
Given(v, fallback) == IF v \in {UNDEF, NULL, ""} THEN fallback ELSE v

\* tabs are the groups of doc, in the order of doc, each with the records of
\* doc in their order and nothing else.
SameGroups(doc, tabs) ==
  /\ Len(tabs) = Len(doc.tabs)
  /\ \A i \in DOMAIN tabs :
        /\ tabs[i].id = doc.tabs[i].id
        /\ tabs[i].name = doc.tabs[i].name
        /\ Len(tabs[i].games) = Len(doc.tabs[i].games.items)
        /\ \A g \in DOMAIN tabs[i].games :
              LET src == doc.tabs[i].games.items[g]
                  rec == tabs[i].games[g]
              IN  /\ ~IsNullGame(src)
                  /\ rec.title = Given(src.title, "")
                  /\ rec.status = Given(src.status, "Não Iniciado")
                  /\ rec.note = Given(src.note, "0")
                  /\ rec.difficulty = Given(src.difficulty, "F")
                  /\ src.id \notin {UNDEF, NULL, ""} => rec.id = src.id

\* C13 as stated: a confirmed import of any well-shaped file replaces the
\* collection by the groups of the file, in their order, and activates the
\* first of them.
C13_ImportReplaces ==
  [][op'.name = "importJson.onload" =>
       \A doc \in ReadFiles :
          (WellShaped(doc) /\ op'.args[1]) =>
             /\ SameGroups(doc, tabsData')
             /\ Len(doc.tabs) > 0 => activeTabId' = doc.tabs[1].id]_vars

\* C13, amended: a confirmed import of a well-shaped file whose games are
\* all objects (none is null) with a title that is a string or absent
\* replaces the collection by the groups of the file, in their order, and
\* activates the first of them; a confirmed import of a well-shaped file
\* with a null game, or with a game whose title is the number 5, is reported
\* as a processing error and leaves the collection, the active id and the
\* stored document as they were.
C13_ImportReplacesObjects ==
  [][op'.name = "importJson.onload" =>
       \A doc \in ReadFiles :
          (WellShaped(doc) /\ op'.args[1]) =>
             IF Adoptable(doc)
             THEN /\ op'.ret = "imported"
                  /\ SameGroups(doc, tabsData')
                  /\ Len(doc.tabs) > 0 => activeTabId' = doc.tabs[1].id
             ELSE /\ op'.ret = "processError"
                  /\ UNCHANGED <<tabsData, activeTabId, localStorage>>]_vars

\* The two tabs of DocTwoTabs were adopted and the first one is active.
C13_Witness ==
  /\ op.name = "importJson.onload"
  /\ op.ret = "imported"
  /\ Len(tabsData) = 2
  /\ tabsData[1].id = "t1" /\ tabsData[2].id = "t2"
  /\ activeTabId = "t1"

\* C14: when the store holds no value, text that does not parse, or an empty
\* array, initialize ends with exactly the default group, without records,
\* as the active group.
C14_BootstrapDefault ==
  [][(/\ op'.name = "initialize"
      /\ \/ localStorage.kind \in {"absent", "garbage"}
         \/ localStorage.kind = "array" /\ Len(localStorage.tabs) = 0) =>
       /\ pc' = "ready"
       /\ Len(tabsData') = 1
       /\ tabsData'[1].id = "default_1"
       /\ tabsData'[1].name = "Minha Lista"
       /\ Len(tabsData'[1].games) = 0
       /\ activeTabId' = tabsData'[1].id]_vars

\* initialize has just run and left the default group as the only group.
C14_Witness ==
  /\ op.name = "initialize"
  /\ pc = "ready"
  /\ Len(tabsData) = 1
  /\ tabsData[1].id = "default_1"
  /\ activeTabId = "default_1"

\* C15: whatever the store holds, initialize completes, with at least one
\* group and an active id that names one of the groups.
C15_BootstrapCompletes ==
  op.name = "initialize" =>
    /\ pc = "ready"
    /\ Len(tabsData) >= 1
    /\ activeTabId \in ids(tabsData)

\* The handler of o ran to its call of updateUI.
ReachedUpdateUI(o) ==
  \/ o.name \in {"initialize", "handleRename", "handleDelete", "addRow",
                 "deleteGame"} /\ o.ret = "ok"
  \/ o.name \in {"activateTab", "addTab"}
  \/ o.name = "updateGame" /\ o.ret = "true"
  \/ o.name = "importJson.onload" /\ o.ret = "imported"

\* stored is the JSON text of tabs.
Mirrors(stored, tabs) ==
  /\ stored.kind = "array"
  /\ Len(stored.tabs) = Len(tabs)
  /\ \A i \in DOMAIN tabs :
        /\ stored.tabs[i].id = tabs[i].id
        /\ stored.tabs[i].name = tabs[i].name
        /\ stored.tabs[i].games.isArray
        /\ stored.tabs[i].games.items = tabs[i].games

\* C16: after initialize and after every handler that changed the state
\* (activateTab, addTab, handleRename, handleDelete, addRow, updateGame,
\* deleteGame, a confirmed import), when the save succeeded, the stored
\* document is the JSON text of tabsData.
C16_StoredEqualsMemory ==
  [][(ReachedUpdateUI(op') /\ ~storageFull) =>
       Mirrors(localStorage', tabsData')]_vars

\* A record was added while the store had room, and the store holds it.
C16_Witness ==
  /\ op.name = "addRow" /\ op.ret = "ok"
  /\ ~storageFull
  /\ \E i \in DOMAIN tabsData : Len(tabsData[i].games) > 0
  /\ Mirrors(localStorage, tabsData)

\* The change a handler made in memory is there after the step: the change
\* of initialize, activateTab, addTab, addRow, updateGame, deleteGame, and of
\* an adopted import.
MutationKept ==
  LET o == op'
      idx == findTab(tabsData, activeTabId)
  IN  /\ o.name = "initialize" => pc' = "ready" /\ Len(tabsData') >= 1
      /\ o.name = "activateTab" => activeTabId' = o.args[1]
      /\ o.name = "addTab" =>
            /\ Len(tabsData') = Len(tabsData) + 1
            /\ activeTabId' = tabsData'[Len(tabsData')].id
      /\ o.name = "addRow" =>
            Len(tabsData'[idx].games) = Len(tabsData[idx].games) + 1
      /\ o.name = "updateGame" =>
            \E k \in DOMAIN tabsData'[idx].games :
               /\ tabsData'[idx].games[k].id = o.args[1]
               /\ tabsData'[idx].games[k][o.args[2]] = o.args[3]
      /\ o.name = "deleteGame" =>
            Len(tabsData'[idx].games) <= Len(tabsData[idx].games)
      /\ o.name = "importJson.onload" =>
            \A doc \in ReadFiles : SameGroups(doc, tabsData')

\* C17: a handler whose save fails (the store is full) keeps its change in
\* memory, leaves the stored document as it was and still renders the
\* state in memory; a handler whose save succeeds makes the stored document
\* the JSON text of tabsData again.
C17_FailedSave ==
  [][ReachedUpdateUI(op') =>
       IF storageFull
       THEN /\ MutationKept
            /\ localStorage' = localStorage
            /\ view'.tabs = tabsData'
            /\ view'.activeTabId = activeTabId'
       ELSE Mirrors(localStorage', tabsData')]_vars

\* A record was added while the store was full: memory and screen hold it,
\* the store does not.
C17_Witness ==
  /\ op.name = "addRow" /\ op.ret = "ok"
  /\ storageFull
  /\ view.tabs = tabsData
  /\ ~Mirrors(localStorage, tabsData)

\* The index of the active group in tabs (0 when there is none) and the
\* number of its records.
ActiveIn(tabs, active) ==
  IF \E i \in DOMAIN tabs : tabs[i].id = active
  THEN CHOOSE i \in DOMAIN tabs :
         tabs[i].id = active /\ \A j \in 1..(i - 1) : tabs[j].id # active
  ELSE 0

\* ceil(n / 10), and the smaller of two numbers.
PagesOf(n) == (n + 9) \div 10

Min(a, b) == IF a < b THEN a ELSE b

\* C18 as stated: with an active group of n records the current page is at
\* most ceil(n / 10), also for n = 0.
C18_PageWithinCeil ==
  (Ready /\ ActiveIn(tabsData, activeTabId) # 0) =>
     currentPage <=
       PagesOf(Len(tabsData[ActiveIn(tabsData, activeTabId)].games))

\* C18, amended: with an active group of n records the current page is at
\* least 1 and at most ceil(n / 10), or 1 when the group has no records.
C18_PageWithinPages ==
  (Ready /\ ActiveIn(tabsData, activeTabId) # 0) =>
     LET n == Len(tabsData[ActiveIn(tabsData, activeTabId)].games)
     IN  /\ currentPage >= 1
         /\ currentPage <= (IF n = 0 THEN 1 ELSE PagesOf(n))

\* The active group has more than ten records and the table shows page 2.
C18_Witness ==
  /\ Ready
  /\ ActiveIn(tabsData, activeTabId) # 0
  /\ Len(tabsData[ActiveIn(tabsData, activeTabId)].games) > 10
  /\ currentPage = 2

\* C19: for an active group of n records getTotalPages() is
\* max(1, ceil(n / 10)), and for every page p from 1 to that number the
\* slice of render has min(10, n - (p - 1) * 10) rows, none only when n = 0.
C19_Paginate ==
  (Ready /\ ActiveIn(tabsData, activeTabId) # 0) =>
     LET idx   == ActiveIn(tabsData, activeTabId)
         games == tabsData[idx].games
         n     == Len(games)
         total == IF PagesOf(n) < 1 THEN 1 ELSE PagesOf(n)
     IN  /\ getTotalPages(tabsData, idx) = total
         /\ \A p \in 1..total :
               /\ Len(gamesToDisplay(games, p)) = Min(10, n - (p - 1) * 10)
               /\ Len(gamesToDisplay(games, p)) = 0 <=> n = 0

\* C20: the addRow that gives the active group its 11th record leaves
\* getTotalPages() = 2 and the table on page 2; every step after which the
\* page count of the active group is below the page shown before it returns
\* to page 1; a deleteGame that leaves at most ten records leaves
\* getTotalPages() <= 1 and page 1.
C20_PageFollowsRows ==
  [][LET idx == ActiveIn(tabsData', activeTabId')
         n   == Len(tabsData'[idx].games)
     IN  idx # 0 =>
           /\ (op'.name = "addRow" /\ op'.ret = "ok" /\ n = 11) =>
                 getTotalPages(tabsData', idx) = 2 /\ currentPage' = 2
           /\ PagesOf(n) < currentPage => currentPage' = 1
           /\ (op'.name = "deleteGame" /\ op'.ret = "ok" /\ n <= 10) =>
                 getTotalPages(tabsData', idx) <= 1 /\ currentPage' = 1]_vars

\* Two of eleven records were deleted (the eleventh, "Novo Jogo 11", is now
\* the ninth): one page is left and the table shows page 1.
C20_Witness ==
  /\ op.name = "deleteGame"
  /\ ActiveIn(tabsData, activeTabId) # 0
  /\ LET idx == ActiveIn(tabsData, activeTabId)
     IN  /\ Len(tabsData[idx].games) = 9
         /\ tabsData[idx].games[9].title = "Novo Jogo 11"
         /\ getTotalPages(tabsData, idx) = 1
  /\ currentPage = 1

\* The integer a note stands for, as the number 5 or written with or
\* without a plus sign (0 when it stands for no integer of 0..10).
NoteValue(note) ==
  IF note = NUMBER5 THEN 5
  ELSE IF \E n \in 0..10 : note \in {ToString(n), "+" \o ToString(n)}
  THEN CHOOSE n \in 0..10 : note \in {ToString(n), "+" \o ToString(n)}
  ELSE 0

\* The position of v in list, counted from 0 (-1 when absent).
Rank(list, v) ==
  IF \E i \in DOMAIN list : list[i] = v
  THEN (CHOOSE i \in DOMAIN list : list[i] = v) - 1
  ELSE -1

\* The key of a comes strictly before that of b.
KeyBelow(a, b, column) ==
  CASE column = "note"       -> NoteValue(a.note) < NoteValue(b.note)
    [] column = "title"      -> stringLess(toLowerCase(a.title), toLowerCase(b.title))
    [] column = "status"     -> Rank(statusOrder, a.status) < Rank(statusOrder, b.status)
    [] column = "difficulty" ->
         Rank(GameDifficulty, a.difficulty) < Rank(GameDifficulty, b.difficulty)

\* sorted is games rearranged by a permutation that orders the keys in the
\* direction of config and keeps the input order of equal keys.
SortedBy(games, sorted, config) ==
  /\ Len(sorted) = Len(games)
  /\ \E p \in Permutations(DOMAIN games) :
        /\ \A k \in DOMAIN games : sorted[k] = games[p[k]]
        /\ \A k, l \in DOMAIN games :
              k < l =>
                LET x == sorted[k]
                    y == sorted[l]
                IN  /\ IF config.direction = "asc"
                       THEN ~KeyBelow(y, x, config.column)
                       ELSE ~KeyBelow(x, y, config.column)
                    /\ (~KeyBelow(x, y, config.column) /\ ~KeyBelow(y, x, config.column))
                         => p[k] < p[l]

NotesOf(games) == [k \in DOMAIN games |-> games[k].note]

\* The records of the active group ("" when there is none).
ActiveGames ==
  IF findTab(tabsData, activeTabId) = 0 THEN <<>>
  ELSE tabsData[findTab(tabsData, activeTabId)].games

\* C21: whatever sort field and direction is selected, sortGames returns a
\* permutation of the active group's records ordered by the key of the
\* field (integer value of note with unparsable = 0, lower-cased title,
\* enumeration index of status and difficulty) in that direction, records
\* with equal keys keeping their insertion order; the notes "3", "10", "0"
\* sorted descending give "10", "3", "0".
C21_SortGames ==
  /\ Truthy(sortConfig.column) =>
        SortedBy(ActiveGames, sortGames(ActiveGames, sortConfig), sortConfig)
  /\ NotesOf(sortGames(<<Game("a", "A", "Jogando", "3", "F"),
                         Game("b", "B", "Jogando", "10", "F"),
                         Game("c", "C", "Jogando", "0", "F")>>,
                       [column |-> "note", direction |-> "desc"]))
       = <<"10", "3", "0">>

\* The active group holds the notes "3", "10", "0" in insertion order and the
\* table, sorted by note descending after a header click, shows "10", "3", "0".
C21_Witness ==
  /\ op.name = "handleSort"
  /\ sortConfig = [column |-> "note", direction |-> "desc"]
  /\ NotesOf(ActiveGames) = <<"3", "10", "0">>
  /\ NotesOf(sortGames(ActiveGames, sortConfig)) = <<"10", "3", "0">>

\* C22: a click on the header of the field already sorted flips the
\* direction and keeps the field; a click on another field (or with no field
\* selected) selects it in ascending direction and shows page 1.
C22_HandleSort ==
  [][\A column \in SortColumns :
       HandleSort(column) =>
         IF sortConfig.column = column
         THEN /\ sortConfig'.column = column
              /\ sortConfig.direction = "asc" => sortConfig'.direction = "desc"
              /\ sortConfig.direction = "desc" => sortConfig'.direction = "asc"
         ELSE /\ sortConfig' = [column |-> column, direction |-> "asc"]
              /\ currentPage' = 1]_vars

\* A second click on the same header of a group of more than one page has
\* turned the direction to descending.
C22_Witness ==
  /\ op.name = "handleSort"
  /\ sortConfig.direction = "desc"
  /\ Len(ActiveGames) > ROWS_PER_PAGE

\* The handlers that assign to tabsData or to the games of a tab.
Mutators ==
  {"initialize", "addTab", "handleRename", "handleDelete", "updateGame",
   "deleteGame", "addRow", "importJson.onload"}

\* C23 as stated: between the start of an import (the read of the chosen
\* file) and the replacement of the collection, no other mutation of the
\* collection takes effect.
C23_NoInterleaving ==
  [][(reader # {} /\ tabsData' # tabsData) =>
       op'.name = "importJson.onload"]_vars

\* C23, amended: every handler is one atomic step, and an import is two:
\* choosing the file starts a read and changes neither the collection, the
\* active group nor the stored document, and the end of the read replaces
\* the collection by the groups of the file and stores it in one step,
\* whatever other handlers changed in between.
C23_ImportInTwoSteps ==
  [][/\ tabsData' # tabsData => op'.name \in Mutators
     /\ op'.name = "importJson" =>
          /\ UNCHANGED <<tabsData, activeTabId, localStorage, view, currentPage>>
          /\ \E doc \in reader' : reader = reader' \ {doc} /\ doc \notin reader
     /\ (op'.name = "importJson.onload" /\ op'.ret = "imported") =>
          /\ \A doc \in ReadFiles : SameGroups(doc, tabsData')
          /\ Mirrors(localStorage', tabsData')]_vars

\* A group was added while the read of an import was pending.
C23_Witness ==
  /\ reader # {}
  /\ op.name = "addTab"
  /\ Len(tabsData) = 2

RecordFields == {"id", "title", "status", "note", "difficulty"}

\* value belongs to the domain of the field (any text is a title).
InDomain(field, value) ==
  CASE field = "title"      -> TRUE
    [] field = "status"     -> \E k \in DOMAIN GameStatus : GameStatus[k] = value
    [] field = "note"       -> \E k \in DOMAIN GameNote : GameNote[k] = value
    [] field = "difficulty" -> \E k \in DOMAIN GameDifficulty : GameDifficulty[k] = value
    [] OTHER                -> FALSE

\* C24: updateGame(gameId, property, value) leaves the active reference,
\* every other group, every other record and every other field of the
\* record as they were (out-of-domain values included), the record being
\* the first of the active group with that id; a value outside the
\* domain of the field or an unknown field name leaves the whole collection
\* as it was, and a value of the domain becomes the value of that field.
C24_UpdateFrame ==
  [][op'.name = "updateGame" =>
       /\ activeTabId' = activeTabId
       /\ op'.ret \in {"TypeError", "notfound", "false"} => tabsData' = tabsData
       /\ op'.ret \in {"true", "false"} =>
            LET gameId == op'.args[1]
                field  == op'.args[2]
                value  == op'.args[3]
                idx    == findTab(tabsData, activeTabId)
            IN  /\ ~InDomain(field, value) => tabsData' = tabsData
                /\ field \notin RecordFields => op'.ret = "false"
                /\ Len(tabsData') = Len(tabsData)
                /\ \A i \in DOMAIN tabsData :
                      /\ i # idx => tabsData'[i] = tabsData[i]
                      /\ tabsData'[i].id = tabsData[i].id
                      /\ tabsData'[i].name = tabsData[i].name
                      /\ Len(tabsData'[i].games) = Len(tabsData[i].games)
                      /\ \A g \in DOMAIN tabsData[i].games :
                            LET before == tabsData[i].games[g]
                                after  == tabsData'[i].games[g]
                                found  == /\ i = idx
                                          /\ before.id = gameId
                                          /\ \A h \in 1..(g - 1) :
                                                tabsData[i].games[h].id # gameId
                            IN  /\ ~found => after = before
                                /\ \A f \in RecordFields \ {field} :
                                      after[f] = before[f]
                                /\ (found /\ field \in RecordFields \ {"id"}
                                    /\ InDomain(field, value)) =>
                                      after[field] = value]_vars

\* The note of g1 was set to "10": its status, outside the enumeration, and
\* the other records of its group are as they were stored.
C24_Witness ==
  /\ op.name = "updateGame" /\ op.ret = "true"
  /\ op.args = <<"g1", "note", "10">>
  /\ Len(ActiveGames) = 4
  /\ ActiveGames[1] = Game("g1", "Zelda", "Unknown", "10", "F")
  /\ ActiveGames[3] = Game("g3", "ZELDA", "Jogando", "0", "F")

\* C25: deleteGame(gameId) with an id of the active group removes exactly
\* one record of that group and keeps the others in their order; with an id
\* the group does not have, it leaves the group as it was; the records of
\* every other group are as they were.
C25_DeleteOne ==
  [][(op'.name = "deleteGame" /\ op'.ret = "ok") =>
       LET idx    == findTab(tabsData, activeTabId)
           gameId == op'.args[1]
           before == tabsData[idx].games
           after  == tabsData'[idx].games
       IN  /\ Len(tabsData') = Len(tabsData)
           /\ \A i \in DOMAIN tabsData :
                 i # idx => tabsData'[i].games = tabsData[i].games
           /\ IF gameId \in ids(before)
              THEN \E k \in DOMAIN before :
                      before[k].id = gameId /\ RemovedAt(before, after, k)
              ELSE after = before]_vars

\* s ends with the decimal digits of n, after a space.
NumberedBy(s, n) ==
  LET d == " " \o ToString(n)
  IN  Len(s) >= Len(d) /\ SubSeq(s, Len(s) - Len(d) + 1, Len(s)) = d

\* C26: addRow with an active group of n records appends one record to that
\* group, with the first status, note and difficulty and a title numbered
\* n + 1, leaves the other groups as they were and shows the last page,
\* ceil((n + 1) / 10); with an active reference that matches no group it
\* changes nothing.
C26_AddRow ==
  [][op'.name = "addRow" =>
       LET idx == findTab(tabsData, activeTabId)
       IN  IF idx = 0
           THEN UNCHANGED <<tabsData, activeTabId, localStorage, currentPage>>
           ELSE LET before == tabsData[idx].games
                    after  == tabsData'[idx].games
                    n      == Len(before)
                IN  /\ activeTabId' = activeTabId
                    /\ Len(tabsData') = Len(tabsData)
                    /\ \A i \in DOMAIN tabsData :
                          /\ i # idx => tabsData'[i] = tabsData[i]
                          /\ tabsData'[i].id = tabsData[i].id
                          /\ tabsData'[i].name = tabsData[i].name
                    /\ Len(after) = n + 1
                    /\ SubSeq(after, 1, n) = before
                    /\ after[n + 1].status = "Não Iniciado"
                    /\ after[n + 1].note = "0"
                    /\ after[n + 1].difficulty = "F"
                    /\ NumberedBy(after[n + 1].title, n + 1)
                    /\ currentPage' = PagesOf(n + 1)]_vars

\* The eleventh record was appended and the table shows page 2.
C26_Witness ==
  /\ op.name = "addRow" /\ op.ret = "ok"
  /\ Len(ActiveGames) = 11
  /\ NumberedBy(ActiveGames[11].title, 11)
  /\ currentPage = 2

\* C27: handleSort and setPage change neither the collection (the records
\* of every group stay in insertion order), the active reference nor the
\* stored document; with no sort field selected the table shows the records
\* in insertion order; setPage(p) with p < 1 or p above the number of pages
\* leaves the current page as it was.
C27_ViewOnly ==
  [][/\ op'.name \in {"handleSort", "setPage"} =>
          UNCHANGED <<tabsData, activeTabId, localStorage>>
     /\ \A p \in PageInputs :
          (SetPage(p) /\ (p < 1 \/ p > PagesOf(Len(ActiveGames)))) =>
             currentPage' = currentPage
     /\ ~Truthy(sortConfig'.column) =>
          gamesToDisplay(sortGames(ActiveGames', sortConfig'), currentPage') =
            SubSeq(ActiveGames', sliceFirst(currentPage'),
                   sliceLast(Len(ActiveGames'), currentPage'))]_vars

\* Page 3 of a group of two pages was asked for while page 2 was shown,
\* sorted by title: page 2 is still shown.
C27_Witness ==
  /\ op.name = "setPage"
  /\ currentPage = 2
  /\ Len(ActiveGames) = 11
  /\ sortConfig.column = "title"

\* C28: every collection in memory can be exported, and a confirmed import
\* of the exported file, or a reload of the page after it was saved, gives
\* the same groups with the same names and the same records in the same
\* order; normalising a record of the collection again changes nothing.
C28_RoundTrip ==
  [][/\ op'.name = "exportToJson" =>
          /\ op'.ret = "downloaded"
          /\ Mirrors(op'.args[1], tabsData)
     /\ (/\ op'.name = "importJson.onload"
         /\ op'.args[1]
         /\ \E doc \in ReadFiles : Mirrors(doc, tabsData)) =>
          op'.ret = "imported" /\ tabsData' = tabsData
     /\ (pc = "ready" /\ op'.name = "reload"
                      /\ Mirrors(localStorage, tabsData)) =>
          tabsData' = tabsData
     /\ pc' = "ready" =>
          \A i \in DOMAIN tabsData' : \A g \in DOMAIN tabsData'[i].games :
             toJSON(fromJSON(tabsData'[i].games[g], now')) =
               tabsData'[i].games[g]]_vars

\* C28 for the collections that have a group.
C28_RoundTripNonEmpty ==
  [][(pc = "ready" /\ Len(tabsData) > 0) =>
       /\ op'.name = "exportToJson" =>
            /\ op'.ret = "downloaded"
            /\ Mirrors(op'.args[1], tabsData)
       /\ (/\ op'.name = "importJson.onload"
           /\ op'.args[1]
           /\ \E doc \in ReadFiles : Mirrors(doc, tabsData)) =>
            op'.ret = "imported" /\ tabsData' = tabsData
       /\ (op'.name = "reload" /\ Mirrors(localStorage, tabsData)) =>
            tabsData' = tabsData]_vars

\* C29: whenever the active group has n >= 1 records, the current page lies
\* in 1..ceil(n / 10) and the table shows at least one record.
C29_PageShowsRecords ==
  (Ready /\ Len(ActiveGames) >= 1) =>
    /\ currentPage >= 1
    /\ currentPage <= PagesOf(Len(ActiveGames))
    /\ Len(gamesToDisplay(sortGames(ActiveGames, sortConfig), currentPage)) >= 1

\* A record of a group of eleven was deleted: ten are left, sorted by title,
\* and page 1 shows them.
C29_Witness ==
  /\ op.name = "deleteGame"
  /\ Len(ActiveGames) = 10
  /\ sortConfig.column = "title"
  /\ currentPage = 1
  /\ Len(gamesToDisplay(sortGames(ActiveGames, sortConfig), currentPage)) = 10

\* C30: right after addRow, the record it added is one of the records that
\* the table shows on the current page, whatever sort is selected.
C30_NewRecordShown ==
  (op.name = "addRow" /\ op.ret = "ok") =>
    LET shown == gamesToDisplay(sortGames(ActiveGames, sortConfig), currentPage)
    IN  \E k \in DOMAIN shown : shown[k] = ActiveGames[Len(ActiveGames)]

====
